---- MODULE Spec2Model ----
(***************************************************************************)
(* Model of fuzzywuzzy-rs src/utils.rs: full_process, slice_utf8,          *)
(* find_longest_match and get_matching_blocks.                             *)
(*                                                                         *)
(* A Rust &str is modelled as what it is: a sequence of bytes holding      *)
(* valid UTF-8.  Scalar values (chars) are code points; byte offsets are   *)
(* 0-based as in Rust, sequence positions 1-based as in TLA+.              *)
(***************************************************************************)
EXTENDS Integers, Sequences, FiniteSets, TLC

VARIABLES
    debug_assertions, \* cfg(debug_assertions): are debug_assert! compiled in
    pc,               \* position of the call being modelled
    a, b,             \* get_matching_blocks arguments
    flipped, shorter, longer, len1, len2,
    queue,            \* work-list of windows <<low1, high1, low2, high2>>
    matching_blocks,  \* triples pushed by the work-list loop
    blocks,           \* value returned by get_matching_blocks
    string, low, high,\* slice_utf8 arguments
    window,           \* find_longest_match ranges <<low1, high1, low2, high2>>
    out,              \* outcome of slice_utf8 / find_longest_match
    s, force_ascii,   \* full_process arguments
    once, twice       \* full_process(s), full_process(full_process(s))

vars == <<debug_assertions, pc, a, b, flipped, shorter, longer, len1, len2,
          queue, matching_blocks, blocks, string, low, high, window, out,
          s, force_ascii, once, twice>>

blockVars == <<a, b, flipped, shorter, longer, len1, len2, queue,
               matching_blocks, blocks>>
sliceVars == <<string, low, high>>
processVars == <<s, force_ascii, once, twice>>

(***************************************************************************)
(* Bounds                                                                  *)
(***************************************************************************)
\* longest string (in scalar values) handed to slice_utf8
MaxLen == 3
\* longest string (in scalar values) handed to find_longest_match
MaxFindLen == 3
\* longest string (in scalar values) handed to get_matching_blocks
MaxBlockLen == 6
\* longest text (in scalar values) handed to full_process
MaxTextLen == 3

(***************************************************************************)
(* UTF-8 strings                                                           *)
(***************************************************************************)
\* 'a', 'b' (1 byte), e-acute, e-grave (2 bytes, same lead byte), katakana HO (3 bytes)
SliceAlphabet == {97, 98, 233, 232, 12507}
\* 'a' (1 byte) and e-acute (2 bytes)
BlockAlphabet == {97, 233}

\* UTF-8 encoding of one scalar value below U+10000
Utf8Char(c) ==
    IF c < 128 THEN <<c>>
    ELSE IF c < 2048 THEN <<192 + (c \div 64), 128 + (c % 64)>>
    ELSE <<224 + (c \div 4096), 128 + ((c \div 64) % 64), 128 + (c % 64)>>

RECURSIVE Utf8(_)
Utf8(cs) == IF cs = <<>> THEN <<>> ELSE Utf8Char(Head(cs)) \o Utf8(Tail(cs))

\* a continuation byte never starts a char
IsCont(byte) == byte \in 128..191

\* byte offsets at which the chars of str start, in order: str.char_indices()
CharIndices(str) ==
    SelectSeq([p \in 1..Len(str) |-> p - 1], LAMBDA o : ~IsCont(str[o + 1]))

\* str.chars().count()
CharCount(str) == Len(CharIndices(str))

\* str.chars(): the scalar values, decoded from the bytes
DecodeAt(str, o) ==
    LET b0 == str[o + 1] IN
    IF b0 < 128 THEN b0
    ELSE IF b0 < 224 THEN (b0 - 192) * 64 + (str[o + 2] - 128)
    ELSE (b0 - 224) * 4096 + (str[o + 2] - 128) * 64 + (str[o + 3] - 128)

Chars(str) == [n \in 1..CharCount(str) |-> DecodeAt(str, CharIndices(str)[n])]

SeqsUpTo(S, n) == UNION {[1..m -> S] : m \in 0..n}

SliceStrings == {Utf8(cs) : cs \in SeqsUpTo(SliceAlphabet, MaxLen)}
FindStrings == {Utf8(cs) : cs \in SeqsUpTo(BlockAlphabet, MaxFindLen)}
BlockStrings == {Utf8(cs) : cs \in SeqsUpTo(BlockAlphabet, MaxBlockLen)}

\* outcome of a call: it returns val, or it does not return (panic)
Ret(v) == [ok |-> TRUE, val |-> v]
Panic == [ok |-> FALSE, val |-> <<>>]

(***************************************************************************)
(* full_process                                                            *)
(*                                                                         *)
(* The text is handled char by char, so it is modelled as the sequence of  *)
(* its scalar values.  The char tables below are those of the Rust         *)
(* standard library for the scalar values the model uses.                  *)
(***************************************************************************)
\* 'A', 'a', ' ', '?', C-cedilla, NOT SIGN, I-with-dot-above, combining dot above
TextAlphabet == {65, 97, 32, 63, 199, 172, 304, 775}

\* char::is_ascii
IsAscii(c) == c < 128

\* char::is_alphanumeric: 'A', 'a', 'i', C-cedilla, c-cedilla, I-with-dot-above;
\* not ' ', '?', NOT SIGN (Sm) or combining dot above (Mn)
IsAlphanumeric(c) == c \in {65, 97, 105, 199, 231, 304}

\* char::is_whitespace
IsWhitespace(c) == c = 32

\* the lower-case form of one char under str::to_lowercase: U+0130 maps to
\* 'i' followed by U+0307
Lower(c) ==
    CASE c = 65 -> <<97>>
      [] c = 199 -> <<231>>
      [] c = 304 -> <<105, 775>>
      [] OTHER -> <<c>>

RECURSIVE to_lowercase(_)
to_lowercase(cs) == IF cs = <<>> THEN <<>> ELSE Lower(Head(cs)) \o to_lowercase(Tail(cs))

\* str::trim
RECURSIVE TrimStart(_)
TrimStart(cs) ==
    IF cs # <<>> /\ IsWhitespace(Head(cs)) THEN TrimStart(Tail(cs)) ELSE cs

RECURSIVE TrimEnd(_)
TrimEnd(cs) ==
    IF cs # <<>> /\ IsWhitespace(cs[Len(cs)]) THEN TrimEnd(SubSeq(cs, 1, Len(cs) - 1)) ELSE cs

Trim(cs) == TrimEnd(TrimStart(cs))

full_process(cs, ascii) ==
    LET filtered == IF ascii THEN SelectSeq(cs, IsAscii) ELSE cs
        spaced == [n \in 1..Len(filtered) |->
                      IF IsAlphanumeric(filtered[n]) THEN filtered[n] ELSE 32]
    IN  Trim(to_lowercase(spaced))

(***************************************************************************)
(* slice_utf8                                                              *)
(***************************************************************************)
\* the two debug_assert! of slice_utf8
SliceAsserts(str, lo, hi) == ~(lo > hi) /\ ~(hi > CharCount(str))

\* a slip the code's comment warns against: take the ending char's own offset
\* and step one byte, which splits a multi-byte ending char
HighIndexOneByte(str, lo, hi) ==
    IF hi > lo /\ hi <= CharCount(str) THEN CharIndices(str)[hi] + 1
    ELSE Len(str)

\* high_index: byte offset of the first char after position lo whose char
\* offset is hi, or string.len() when the iterator runs out
HighIndex(str, lo, hi) ==
    IF hi > lo /\ hi < CharCount(str) THEN CharIndices(str)[hi + 1]
    ELSE Len(str)

slice_utf8(dbg, str, lo, hi) ==
    IF dbg /\ ~SliceAsserts(str, lo, hi) THEN Panic
    ELSE IF lo = hi THEN Ret(<<>>)
    ELSE IF ~(lo < CharCount(str)) THEN Panic   \* expect("Beginning of slice not found.")
    ELSE Ret(SubSeq(str, CharIndices(str)[lo + 1] + 1, HighIndex(str, lo, hi)))

(***************************************************************************)
(* find_longest_match                                                      *)
(***************************************************************************)
\* the four debug_assert! of find_longest_match
FindAsserts(sh, lo, low1, high1, low2, high2) ==
    /\ low1 <= high1
    /\ low2 <= high2
    /\ high1 <= CharCount(sh)
    /\ high2 <= CharCount(lo)

\* a slip: leave the table empty of char offsets and hand back the byte offset
ByteOffsetsAsCharOffsets(longsub) == [o \in 0..(Len(longsub) - 1) |-> o]

\* byte_to_char_map: vec![0; longsub.len()], then at every byte offset where
\* a char starts, that char's offset
byte_to_char_map(longsub) ==
    [o \in 0..(Len(longsub) - 1) |->
        IF IsCont(longsub[o + 1]) THEN 0
        ELSE CHOOSE n \in 0..(CharCount(longsub) - 1) : CharIndices(longsub)[n + 1] = o]

\* the set of byte offsets at which the bytes of needle occur in hay
MatchIndices(hay, needle) ==
    {p \in 0..(Len(hay) - Len(needle)) : SubSeq(hay, p + 1, p + Len(needle)) = needle}

Min(S) == CHOOSE x \in S : \A y \in S : x <= y

\* longsub.match_indices(substr).next(): the byte offset of the leftmost
\* occurrence, -1 standing for None
FirstMatch(hay, needle) ==
    IF MatchIndices(hay, needle) = {} THEN -1 ELSE Min(MatchIndices(hay, needle))

NotFound == [done |-> FALSE, res |-> Panic]
Found(r) == [done |-> TRUE, res |-> r]

\* for start in 0..slen - size + 1 { ... }
RECURSIVE ScanStarts(_, _, _, _, _, _, _, _)
ScanStarts(dbg, sh, longsub, low1, low2, slen, size, start) ==
    IF start > slen - size THEN NotFound
    ELSE LET substr == slice_utf8(dbg, sh, low1 + start, low1 + start + size) IN
         IF ~substr.ok THEN Found(Panic)
         ELSE LET startb == FirstMatch(longsub, substr.val) IN
              IF startb < 0
              THEN ScanStarts(dbg, sh, longsub, low1, low2, slen, size, start + 1)
              ELSE IF startb >= Len(longsub) THEN Found(Panic) \* index out of bounds
              ELSE Found(Ret(<<low1 + start,
                               low2 + byte_to_char_map(longsub)[startb],
                               CharCount(substr.val)>>))

\* a slip: for size in 1..slen + 1 without .rev(), shortest candidates first
RECURSIVE ScanSizesAscending(_, _, _, _, _, _, _)
ScanSizesAscending(dbg, sh, longsub, low1, low2, slen, size) ==
    IF size = 0 THEN Ret(<<low1, low2, 0>>)
    ELSE LET r == ScanStarts(dbg, sh, longsub, low1, low2, slen, slen - size + 1, 0) IN
         IF r.done THEN r.res
         ELSE ScanSizesAscending(dbg, sh, longsub, low1, low2, slen, size - 1)

\* for size in (1..slen + 1).rev() { ... } (low1, low2, 0)
RECURSIVE ScanSizes(_, _, _, _, _, _, _)
ScanSizes(dbg, sh, longsub, low1, low2, slen, size) ==
    IF size = 0 THEN Ret(<<low1, low2, 0>>)
    ELSE LET r == ScanStarts(dbg, sh, longsub, low1, low2, slen, size, 0) IN
         IF r.done THEN r.res
         ELSE ScanSizes(dbg, sh, longsub, low1, low2, slen, size - 1)

find_longest_match(dbg, sh, lo, low1, high1, low2, high2) ==
    IF dbg /\ ~FindAsserts(sh, lo, low1, high1, low2, high2) THEN Panic
    ELSE LET longsub == slice_utf8(dbg, lo, low2, high2) IN
         IF ~longsub.ok THEN Panic
         ELSE IF high1 < low1
              \* without debug assertions high1 - low1 wraps around: one below
              \* zero makes 1..slen + 1 empty, anything lower starts a scan of
              \* about 2^64 sizes that does not return
              THEN IF low1 - high1 = 1 THEN Ret(<<low1, low2, 0>>) ELSE Panic
              ELSE ScanSizes(dbg, sh, longsub.val, low1, low2, high1 - low1, high1 - low1)

(***************************************************************************)
(* get_matching_blocks                                                     *)
(***************************************************************************)
\* direction normalization: (shorter, len1, longer, len2) and flipped
Normalize(x, y) ==
    IF CharCount(x) <= CharCount(y)
    THEN [flipped |-> FALSE, shorter |-> x, len1 |-> CharCount(x),
          longer |-> y, len2 |-> CharCount(y)]
    ELSE [flipped |-> TRUE, shorter |-> y, len1 |-> CharCount(y),
          longer |-> x, len2 |-> CharCount(x)]

\* a slip: the window after the match is pushed without testing it is non-empty
\* and one position too far to the right
PushWindowsUnguarded(q, low1, high1, low2, high2, i, j, k) ==
    LET q1 == IF low1 < i /\ low2 < j THEN Append(q, <<low1, i, low2, j>>) ELSE q
    IN  Append(q1, <<i + k + 1, high1, j + k + 1, high2>>)

\* the two queue.push of the work-list loop
PushWindows(q, low1, high1, low2, high2, i, j, k) ==
    LET q1 == IF low1 < i /\ low2 < j THEN Append(q, <<low1, i, low2, j>>) ELSE q
    IN  IF i + k < high1 /\ j + k < high2
        THEN Append(q1, <<i + k, high1, j + k, high2>>) ELSE q1

\* one iteration of while let Some(..) = queue.pop(), for a non-empty queue
LoopStep(dbg, sh, lo, q, mb) ==
    LET w == q[Len(q)]
        rest == SubSeq(q, 1, Len(q) - 1)
        r == find_longest_match(dbg, sh, lo, w[1], w[2], w[3], w[4])
    IN  IF ~r.ok THEN [ok |-> FALSE, queue |-> rest, matching_blocks |-> mb]
        ELSE LET i == r.val[1]
                 j == r.val[2]
                 k == r.val[3]
             IN  IF dbg /\ ~(i <= CharCount(sh) /\ j <= CharCount(lo))
                 THEN [ok |-> FALSE, queue |-> rest, matching_blocks |-> mb]
                 ELSE IF k # 0
                 THEN [ok |-> TRUE,
                       queue |-> PushWindows(rest, w[1], w[2], w[3], w[4], i, j, k),
                       matching_blocks |-> Append(mb, <<i, j, k>>)]
                 ELSE [ok |-> TRUE, queue |-> rest, matching_blocks |-> mb]

\* Ord of (usize, usize, usize)
TripleLess(x, y) ==
    \/ x[1] < y[1]
    \/ x[1] = y[1] /\ x[2] < y[2]
    \/ x[1] = y[1] /\ x[2] = y[2] /\ x[3] < y[3]

RECURSIVE Insert(_, _)
Insert(sorted, x) ==
    IF sorted = <<>> THEN <<x>>
    ELSE IF TripleLess(x, Head(sorted)) THEN <<x>> \o sorted
    ELSE <<Head(sorted)>> \o Insert(Tail(sorted), x)

RECURSIVE InsertAll(_, _)
InsertAll(sorted, rest) ==
    IF rest = <<>> THEN sorted ELSE InsertAll(Insert(sorted, Head(rest)), Tail(rest))

\* a slip the code's own comment invites: drop the sort
SortSkipped(mb) == mb

\* matching_blocks.sort_unstable()
SortBlocks(mb) == InsertAll(<<>>, mb)

\* a slip: a run that ends is emitted with the next block's length, k2 for k1
RECURSIVE MergeLoopPushK2(_, _, _, _, _)
MergeLoopPushK2(mb, i1, j1, k1, acc) ==
    IF mb = <<>> THEN (IF k1 # 0 THEN Append(acc, <<i1, j1, k1>>) ELSE acc)
    ELSE LET i2 == Head(mb)[1]
             j2 == Head(mb)[2]
             k2 == Head(mb)[3]
         IN  IF i1 + k1 = i2 /\ j1 + k1 = j2
             THEN MergeLoopPushK2(Tail(mb), i1, j1, k1 + k2, acc)
             ELSE MergeLoopPushK2(Tail(mb), i2, j2, k2,
                                  IF k1 # 0 THEN Append(acc, <<i1, j1, k2>>) ELSE acc)

\* the merge loop over the sorted blocks and the push after it
RECURSIVE MergeLoop(_, _, _, _, _)
MergeLoop(mb, i1, j1, k1, acc) ==
    IF mb = <<>> THEN (IF k1 # 0 THEN Append(acc, <<i1, j1, k1>>) ELSE acc)
    ELSE LET i2 == Head(mb)[1]
             j2 == Head(mb)[2]
             k2 == Head(mb)[3]
         IN  IF i1 + k1 = i2 /\ j1 + k1 = j2
             THEN MergeLoop(Tail(mb), i1, j1, k1 + k2, acc)
             ELSE MergeLoop(Tail(mb), i2, j2, k2,
                            IF k1 # 0 THEN Append(acc, <<i1, j1, k1>>) ELSE acc)

\* a slip: the sentinel is built from the arguments' byte lengths
SentinelBytes(sh, lo, l1, l2) == <<Len(sh), Len(lo), 0>>

\* non_adjacent.push((len1, len2, 0))
Sentinel(sh, lo, l1, l2) == <<l1, l2, 0>>

\* a slip: the triples are returned in (shorter, longer) order
UnflipForgotten(list, f) == list

\* .map(|(i, j, k)| if flipped { (j, i, k) } else { (i, j, k) })
Unflip(list, f) ==
    [n \in 1..Len(list) |-> IF f THEN <<list[n][2], list[n][1], list[n][3]>> ELSE list[n]]

\* everything after the work-list loop
Collect(mb, sh, lo, l1, l2, f) ==
    Unflip(Append(MergeLoop(SortBlocks(mb), 0, 0, 0, <<>>), Sentinel(sh, lo, l1, l2)), f)

RECURSIVE RunLoop(_, _, _, _, _)
RunLoop(dbg, sh, lo, q, mb) ==
    IF q = <<>> THEN [ok |-> TRUE, matching_blocks |-> mb]
    ELSE LET st == LoopStep(dbg, sh, lo, q, mb) IN
         IF ~st.ok THEN [ok |-> FALSE, matching_blocks |-> mb]
         ELSE RunLoop(dbg, sh, lo, st.queue, st.matching_blocks)

\* the whole call as a function of its arguments
get_matching_blocks(dbg, x, y) ==
    LET n == Normalize(x, y)
        r == RunLoop(dbg, n.shorter, n.longer, <<<<0, n.len1, 0, n.len2>>>>, <<>>)
    IN  IF ~r.ok THEN Panic
        ELSE Ret(Collect(r.matching_blocks, n.shorter, n.longer, n.len1, n.len2, n.flipped))

(***************************************************************************)
(* Specification of one slice_utf8 call                                    *)
(***************************************************************************)
Idle == <<>>

SliceInit ==
    /\ debug_assertions \in BOOLEAN
    /\ pc = "call"
    /\ string \in SliceStrings
    /\ low \in 0..(MaxLen + 1)
    /\ high \in 0..(MaxLen + 1)
    /\ window = Idle
    /\ out = Idle
    /\ a = Idle /\ b = Idle /\ flipped = FALSE /\ shorter = Idle /\ longer = Idle
    /\ len1 = 0 /\ len2 = 0 /\ queue = <<>> /\ matching_blocks = <<>> /\ blocks = <<>>
    /\ s = Idle /\ force_ascii = FALSE /\ once = Idle /\ twice = Idle

Slice ==
    /\ pc = "call"
    /\ out' = slice_utf8(debug_assertions, string, low, high)
    /\ pc' = "done"
    /\ UNCHANGED <<debug_assertions, blockVars, sliceVars, window, processVars>>

SliceNext == Slice

SpecSlice == SliceInit /\ [][SliceNext]_vars

(***************************************************************************)
(* Specification of one find_longest_match call on valid ranges            *)
(***************************************************************************)
FindInit ==
    /\ debug_assertions \in BOOLEAN
    /\ pc = "call"
    /\ shorter \in FindStrings
    /\ longer \in FindStrings
    /\ window \in {w \in (0..MaxFindLen) \X (0..MaxFindLen) \X (0..MaxFindLen) \X (0..MaxFindLen) :
                      FindAsserts(shorter, longer, w[1], w[2], w[3], w[4])}
    /\ out = Idle
    /\ string = Idle /\ low = 0 /\ high = 0
    /\ a = Idle /\ b = Idle /\ flipped = FALSE
    /\ len1 = 0 /\ len2 = 0 /\ queue = <<>> /\ matching_blocks = <<>> /\ blocks = <<>>
    /\ s = Idle /\ force_ascii = FALSE /\ once = Idle /\ twice = Idle

Find ==
    /\ pc = "call"
    /\ out' = find_longest_match(debug_assertions, shorter, longer,
                                  window[1], window[2], window[3], window[4])
    /\ pc' = "done"
    /\ UNCHANGED <<debug_assertions, blockVars, sliceVars, window, processVars>>

FindNext == Find

SpecFind == FindInit /\ [][FindNext]_vars

(***************************************************************************)
(* Specification of one get_matching_blocks call, one loop iteration at a  *)
(* time                                                                    *)
(***************************************************************************)
BlocksInit ==
    /\ debug_assertions \in BOOLEAN
    /\ pc = "start"
    /\ a \in BlockStrings
    /\ b \in BlockStrings
    /\ flipped = FALSE /\ shorter = Idle /\ longer = Idle /\ len1 = 0 /\ len2 = 0
    /\ queue = <<>> /\ matching_blocks = <<>> /\ blocks = <<>>
    /\ window = Idle /\ out = Idle
    /\ string = Idle /\ low = 0 /\ high = 0
    /\ s = Idle /\ force_ascii = FALSE /\ once = Idle /\ twice = Idle

otherVars == <<debug_assertions, sliceVars, out, processVars>>

\* lines 180-194: choose the direction, seed the work-list
Begin ==
    /\ pc = "start"
    /\ LET n == Normalize(a, b) IN
        /\ flipped' = n.flipped
        /\ shorter' = n.shorter
        /\ longer' = n.longer
        /\ len1' = n.len1
        /\ len2' = n.len2
        /\ queue' = <<<<0, n.len1, 0, n.len2>>>>
    /\ matching_blocks' = <<>>
    /\ pc' = "loop"
    /\ UNCHANGED <<a, b, blocks, window, otherVars>>

\* one iteration of the work-list loop
PopWindow ==
    /\ pc = "loop"
    /\ queue # <<>>
    /\ LET st == LoopStep(debug_assertions, shorter, longer, queue, matching_blocks) IN
        /\ queue' = st.queue
        /\ matching_blocks' = st.matching_blocks
        /\ pc' = IF st.ok THEN "loop" ELSE "panic"
    /\ window' = queue[Len(queue)]
    /\ UNCHANGED <<a, b, flipped, shorter, longer, len1, len2, blocks, otherVars>>

\* the work-list is empty: sort, merge, sentinel, un-flip, return
Return ==
    /\ pc = "loop"
    /\ queue = <<>>
    /\ blocks' = Collect(matching_blocks, shorter, longer, len1, len2, flipped)
    /\ pc' = "done"
    /\ UNCHANGED <<a, b, flipped, shorter, longer, len1, len2, queue,
                   matching_blocks, window, otherVars>>

BlocksNext == Begin \/ PopWindow \/ Return

SpecBlocks == BlocksInit /\ [][BlocksNext]_vars

(***************************************************************************)
(* Specification of full_process applied once and then to its own result   *)
(***************************************************************************)
ProcessInit ==
    /\ debug_assertions \in BOOLEAN
    /\ pc = "call"
    /\ s \in SeqsUpTo(TextAlphabet, MaxTextLen)
    /\ force_ascii \in BOOLEAN
    /\ once = Idle /\ twice = Idle
    /\ a = Idle /\ b = Idle /\ flipped = FALSE /\ shorter = Idle /\ longer = Idle
    /\ len1 = 0 /\ len2 = 0 /\ queue = <<>> /\ matching_blocks = <<>> /\ blocks = <<>>
    /\ window = Idle /\ out = Idle
    /\ string = Idle /\ low = 0 /\ high = 0

Process ==
    /\ pc = "call"
    /\ once' = full_process(s, force_ascii)
    /\ pc' = "once"
    /\ UNCHANGED <<debug_assertions, blockVars, sliceVars, window, out, s, force_ascii, twice>>

Reprocess ==
    /\ pc = "once"
    /\ twice' = full_process(once, force_ascii)
    /\ pc' = "twice"
    /\ UNCHANGED <<debug_assertions, blockVars, sliceVars, window, out, s, force_ascii, once>>

ProcessNext == Process \/ Reprocess

SpecProcess == ProcessInit /\ [][ProcessNext]_vars

(***************************************************************************)
(* Properties                                                              *)
(***************************************************************************)
Range(f) == {f[n] : n \in DOMAIN f}
Swapped(list) == {<<t[2], t[1], t[3]>> : t \in Range(list)}
Adjacent(x, y) == x[1] + x[3] = y[1] /\ x[2] + x[3] = y[2]

C2_BlocksAreMatches ==
    pc = "done" =>
        \A n \in 1..(Len(blocks) - 1) :
            LET i == blocks[n][1]
                j == blocks[n][2]
                k == blocks[n][3]
            IN  /\ k >= 1
                /\ i + k <= CharCount(a)
                /\ j + k <= CharCount(b)
                /\ SubSeq(Chars(a), i + 1, i + k) = SubSeq(Chars(b), j + 1, j + k)

C2_Witness ==
    /\ pc = "done"
    /\ flipped
    /\ Len(blocks) >= 3
    /\ CharCount(a) < Len(a)
    /\ Len(a) < 2 * CharCount(a)

\* C3 as stated: for all a, b (equal lengths included) (i, j, k) is in
\* get_matching_blocks(a, b) exactly when (j, i, k) is in
\* get_matching_blocks(b, a).
C3_SymmetryAlways ==
    pc = "done" =>
        LET r == get_matching_blocks(debug_assertions, b, a)
        IN  r.ok /\ Swapped(blocks) = Range(r.val)

\* C3 amended: when a and b differ in their number of scalar values,
\* (i, j, k) is in get_matching_blocks(a, b) exactly when (j, i, k) is in
\* get_matching_blocks(b, a).
C3_SymmetryUnequalLengths ==
    pc = "done" /\ CharCount(a) # CharCount(b) =>
        LET r == get_matching_blocks(debug_assertions, b, a)
        IN  r.ok /\ Swapped(blocks) = Range(r.val)

C3_Witness ==
    /\ pc = "done"
    /\ CharCount(a) > CharCount(b)
    /\ Len(blocks) >= 3
    /\ \E n \in 1..(Len(blocks) - 1) : blocks[n][1] # blocks[n][2]

\* C4: in a finished call's list any two consecutive triples (i1, j1, k1),
\* (i2, j2, k2) satisfy i1 + k1 <= i2 and j1 + k1 <= j2, and the start
\* offsets of the non-sentinel triples increase strictly in a and in b.
C4_SortedNonOverlapping ==
    pc = "done" =>
        /\ \A n \in 1..(Len(blocks) - 1) :
              /\ blocks[n][1] + blocks[n][3] <= blocks[n + 1][1]
              /\ blocks[n][2] + blocks[n][3] <= blocks[n + 1][2]
        /\ \A n \in 1..(Len(blocks) - 2) :
              /\ blocks[n][1] < blocks[n + 1][1]
              /\ blocks[n][2] < blocks[n + 1][2]

C4_Witness ==
    /\ pc = "done"
    /\ Len(blocks) >= 3
    /\ matching_blocks # SortBlocks(matching_blocks)

\* C5 as stated: no two consecutive triples of a finished call's list
\* (the sentinel included) satisfy i1 + k1 = i2 and j1 + k1 = j2.
C5_NoAdjacentTriples ==
    pc = "done" =>
        \A n \in 1..(Len(blocks) - 1) : ~Adjacent(blocks[n], blocks[n + 1])

\* C5 amended: no two consecutive non-sentinel triples of a finished
\* call's list satisfy i1 + k1 = i2 and j1 + k1 = j2; the last match may
\* end exactly where the sentinel stands.
C5_NoAdjacentMatches ==
    pc = "done" =>
        \A n \in 1..(Len(blocks) - 2) : ~Adjacent(blocks[n], blocks[n + 1])

C5_Witness ==
    /\ pc = "done"
    /\ Len(blocks) >= 3
    /\ blocks[1][1] = 0 /\ blocks[1][2] = 0
    /\ blocks[1][3] < blocks[2][3]

WindowOk(w) ==
    /\ 0 <= w[1] /\ w[1] <= w[2] /\ w[2] <= CharCount(shorter)
    /\ 0 <= w[3] /\ w[3] <= w[4] /\ w[4] <= CharCount(longer)

\* C7: a call never fails: every window on the work-list and every window
\* popped from it satisfies 0 <= low1 <= high1 <= length(shorter) and
\* 0 <= low2 <= high2 <= length(longer), and no assertion or expect fires.
C7_NeverFails ==
    /\ pc # "panic"
    /\ pc \in {"loop", "done"} =>
          /\ \A n \in 1..Len(queue) : WindowOk(queue[n])
          /\ window # Idle => WindowOk(window)

C7_Witness ==
    /\ pc = "loop"
    /\ Len(queue) = 2
    /\ window # Idle
    /\ CharCount(shorter) < Len(shorter)

\* a common substring of the two windows, in scalar-value offsets
Common(i, j, k) ==
    /\ k >= 1
    /\ window[1] <= i /\ i + k <= window[2]
    /\ window[3] <= j /\ j + k <= window[4]
    /\ SubSeq(Chars(shorter), i + 1, i + k) = SubSeq(Chars(longer), j + 1, j + k)

Candidates ==
    {t \in (0..MaxFindLen) \X (0..MaxFindLen) \X (1..MaxFindLen) : Common(t[1], t[2], t[3])}

\* C8: on valid ranges find_longest_match returns (i, j, k) with k the
\* largest length of a substring common to both windows, i the smallest
\* start in shorter among the matches of that length and j the smallest
\* start in longer for that i; with nothing in common it returns
\* (low1, low2, 0).
C8_LongestEarliest ==
    pc = "done" =>
        /\ out.ok
        /\ IF Candidates = {}
           THEN out.val = <<window[1], window[3], 0>>
           ELSE /\ out.val \in Candidates
                /\ \A t \in Candidates :
                      /\ t[3] <= out.val[3]
                      /\ t[3] = out.val[3] => out.val[1] <= t[1]
                      /\ t[3] = out.val[3] /\ t[1] = out.val[1] => out.val[2] <= t[2]

C8_Witness ==
    /\ pc = "done"
    /\ out.ok
    /\ out.val[3] >= 1
    /\ out.val[2] > window[3]
    /\ Len(longer) > CharCount(longer)
    /\ \E t \in Candidates : t[3] = out.val[3] /\ t[1] > out.val[1]
    /\ \E t \in Candidates : t[3] = out.val[3] /\ t[1] = out.val[1] /\ t[2] > out.val[2]

\* C9: slice_utf8 called with low > high, or with high above the number of
\* scalar values of string, panics: it never returns a substring or an
\* empty result.
C9_BadRangePanics ==
    pc = "done" /\ (low > high \/ high > CharCount(string)) => ~out.ok

\* C10: for 0 <= low <= high <= length(s) slice_utf8 returns exactly the
\* scalar values of s at offsets low .. high - 1, in order, without
\* splitting an encoded char: empty when low = high, up to the end of the
\* byte buffer when high = length(s).
C10_SliceIsSubsequence ==
    pc = "done" /\ low <= high /\ high <= CharCount(string) =>
        /\ out.ok
        /\ out.val = Utf8(SubSeq(Chars(string), low + 1, high))
        /\ low = high => out.val = <<>>
        /\ high = CharCount(string) /\ low < high =>
              out.val = SubSeq(string, Len(string) - Len(out.val) + 1, Len(string))

C10_Witness ==
    /\ pc = "done"
    /\ 0 < low /\ low < high /\ high = CharCount(string)
    /\ out.ok
    /\ Len(out.val) > high - low
    /\ Len(string) < 3 * CharCount(string)

\* C6: full_process applied to its own result returns it unchanged, for
\* either value of force_ascii.
C6_Idempotent ==
    pc = "twice" => twice = once

====
